---- MODULE Spec2Model ----
(***************************************************************************)
(* The range-aware video endpoint of                                       *)
(* Node.js/video-stream/server/src/websocket.js: the Fastify handler       *)
(* GET /video/:filename, the parseRange helper and handleConditionalRequest.*)
(*                                                                         *)
(* JavaScript strings are sequences of one-character strings; an absent    *)
(* header (undefined) is the empty sequence, which the code cannot tell    *)
(* from an empty header: both are falsy and neither equals an ETag.        *)
(* JavaScript numbers are tagged records so that NaN is a value.           *)
(***************************************************************************)
EXTENDS Integers, Sequences, FiniteSets, TLC

\* ---------------------------------------------------------------- bounds
MaxFileSize == 10      \* the largest resource length
MaxNum == 11           \* numbers written in a Range header: 0..MaxNum
MaxMtime == 1          \* modification times 1..MaxMtime
MaxNow == 1            \* Date.now() ranges over 0..MaxNow
MaxWrites == 2         \* writes to the file
MaxRequests == 3       \* requests the governors see
\* the ceilings of the governors, 100 and 50 in the source, scaled down
MAX_CONCURRENT_STREAMS == 2
PROCESSING_LIMIT == 1
MaxClockSteps == 2     \* times the clock moves on by about SESSION_TIMEOUT
MaxChunk == 2          \* bytes in one 'data' chunk
HighWaterMark == 2     \* bytes the response buffers before write() returns false

\* ------------------------------------------------------ JavaScript numbers
NaN == [t |-> "NaN", v |-> 0]
Undefined == [t |-> "undefined", v |-> 0]
Num(n) == [t |-> "num", v |-> n]
isNaN(x) == x.t # "num"
IsNum(x) == x.t = "num"

\* a - b, a + b : NaN when an operand is NaN
Minus(a, b) == IF isNaN(a) \/ isNaN(b) THEN NaN ELSE Num(a.v - b.v)
Plus(a, b) == IF isNaN(a) \/ isNaN(b) THEN NaN ELSE Num(a.v + b.v)
\* a >= b, a > b, a < b : false when an operand is NaN
GE(a, b) == IsNum(a) /\ IsNum(b) /\ a.v >= b.v
GT(a, b) == IsNum(a) /\ IsNum(b) /\ a.v > b.v
LT(a, b) == IsNum(a) /\ IsNum(b) /\ a.v < b.v

\* ------------------------------------------------------ JavaScript strings
Digits == <<"0", "1", "2", "3", "4", "5", "6", "7", "8", "9">>
IsDigit(c) == \E i \in 1..10 : Digits[i] = c
DigitVal(c) == (CHOOSE i \in 1..10 : Digits[i] = c) - 1

RECURSIVE NatToString(_)
NatToString(n) ==
  IF n < 10 THEN <<Digits[n + 1]>>
  ELSE NatToString(n \div 10) \o <<Digits[(n % 10) + 1]>>

\* `${x}` of a number
NumberToString(x) ==
  IF x.t = "NaN" THEN <<"N", "a", "N">>
  ELSE IF x.t = "undefined" THEN <<"u", "n", "d", "e", "f", "i", "n", "e", "d">>
  ELSE IF x.v < 0 THEN <<"-">> \o NatToString(-x.v)
  ELSE NatToString(x.v)

RECURSIVE SkipWhiteSpace(_)
SkipWhiteSpace(s) ==
  IF s # <<>> /\ Head(s) = " " THEN SkipWhiteSpace(Tail(s)) ELSE s

RECURSIVE DigitPrefix(_)
DigitPrefix(s) ==
  IF s # <<>> /\ IsDigit(Head(s)) THEN <<Head(s)>> \o DigitPrefix(Tail(s))
  ELSE <<>>

RECURSIVE DigitsValue(_, _)
DigitsValue(s, acc) ==
  IF s = <<>> THEN acc ELSE DigitsValue(Tail(s), 10 * acc + DigitVal(Head(s)))

\* parseInt(s, 10): leading white space, an optional sign, then the longest
\* run of digits; NaN when there is no digit
parseInt(s) ==
  LET t == SkipWhiteSpace(s)
      signed == t # <<>> /\ Head(t) \in {"+", "-"}
      u == IF signed THEN Tail(t) ELSE t
      d == DigitPrefix(u)
  IN IF d = <<>> THEN NaN
     ELSE IF signed /\ Head(t) = "-" THEN Num(-DigitsValue(d, 0))
     ELSE Num(DigitsValue(d, 0))

StartsWith(s, p) == Len(s) >= Len(p) /\ SubSeq(s, 1, Len(p)) = p

\* s.replace(/p/, ''): the first occurrence of p is removed
Replace(s, p) ==
  LET hits == {i \in 1..(Len(s) - Len(p) + 1) : SubSeq(s, i, i + Len(p) - 1) = p}
  IN IF hits = {} THEN s
     ELSE LET i == CHOOSE k \in hits : \A j \in hits : k <= j
          IN SubSeq(s, 1, i - 1) \o SubSeq(s, i + Len(p), Len(s))

\* s.split(c)
RECURSIVE Split(_, _)
Split(s, c) ==
  LET hits == {i \in 1..Len(s) : s[i] = c}
  IN IF hits = {} THEN <<s>>
     ELSE LET i == CHOOSE k \in hits : \A j \in hits : k <= j
          IN <<SubSeq(s, 1, i - 1)>> \o Split(SubSeq(s, i + 1, Len(s)), c)

\* parts[i] of a JavaScript array (0-based); undefined is the empty sequence
At(parts, i) == IF i + 1 <= Len(parts) THEN parts[i + 1] ELSE <<>>

BytesEq == <<"b", "y", "t", "e", "s", "=">>

\* -------------------------------------------------- the resource and inputs
VARIABLES fileSize, mtime, now, recentSessions, request, reply, parsed
httpVars == <<fileSize, mtime, now, recentSessions, request, reply, parsed>>
\* the version of the bytes stored in the file (counts the writes to it)
VARIABLES content
\* the concurrency governors of video-streaming-endpoint.md: the requests
\* they have seen, the Set of open streams, the queue and its counter
VARIABLES streams, activeStreams, queue, processing
govVars == <<streams, activeStreams, queue, processing>>
\* one transfer: the fs.ReadStream being read and the response it is written to
VARIABLES readStream, res
xferVars == <<readStream, res>>
\* one call of handleMultipleRanges: its ranges, the writes to the response
\* and the streams it piped
VARIABLES multi
\* state the HTTP handlers do not touch
notHttp == <<content, govVars, xferVars, multi>>
vars == <<httpVars, notHttp>>

SESSION_TIMEOUT == 5 * 60 * 1000

\* the one file under assets/, and a name that is not there
Filenames == {"video.mp4", "missing.mp4"}
\* request.params.filename with an encoded separator decoded: names that
\* climb out of the assets directory
TraversalFilenames == {"../websocket.js", "../missing.js"}
\* the path segments of each filename
Segments(filename) ==
  CASE filename = "../websocket.js" -> <<"..", "websocket.js">>
    [] filename = "../missing.js" -> <<"..", "missing.js">>
    [] OTHER -> <<filename>>
\* path.join normalises its result: a ".." segment removes the one before it
RECURSIVE Normalize(_, _)
Normalize(done, rest) ==
  IF rest = <<>> THEN done
  ELSE IF Head(rest) = ".." /\ done # <<>>
  THEN Normalize(SubSeq(done, 1, Len(done) - 1), Tail(rest))
  ELSE Normalize(Append(done, Head(rest)), Tail(rest))
\* __dirname and the resource root path.join(__dirname, 'assets')
Dirname == <<"server", "src">>
AssetsRoot == Dirname \o <<"assets">>
\* path.join(__dirname, 'assets', request.params.filename)
VideoPath(filename) == Normalize(<<>>, AssetsRoot \o Segments(filename))
\* whether a path lies under the resource root
InsideRoot(p) == Len(p) > Len(AssetsRoot) /\ SubSeq(p, 1, Len(AssetsRoot)) = AssetsRoot
\* the files on disk: the video and the server's own source
Files == {AssetsRoot \o <<"video.mp4">>, Dirname \o <<"websocket.js">>}
\* fs.promises.stat(videoPath) succeeds
Exists(filename) == VideoPath(filename) \in Files

\* session query parameter: absent ("") or a token
SessionIds == {"", "s1"}

\* `"${stat.size}-${stat.mtime.getTime()}"`
ETag(size, time) ==
  <<"\"">> \o NatToString(size) \o <<"-">> \o NatToString(time) \o <<"\"">>

\* stat.mtime.toUTCString(): the modification time to the second
LastModified(time) == <<"G", "M", "T">> \o NatToString(time \div 1000)

\* stat.size: an empty file, one byte, and the two largest lengths
FileSizes == {0, 1, MaxFileSize - 1, MaxFileSize}

Nums == 0..MaxNum
Fmt(n) == NatToString(n)

\* Range header values a client sends
ClosedRanges == {BytesEq \o Fmt(a) \o <<"-">> \o Fmt(b) : a \in Nums, b \in Nums}
OpenRanges == {BytesEq \o Fmt(a) \o <<"-">> : a \in Nums}
SuffixRanges == {BytesEq \o <<"-">> \o Fmt(n) : n \in Nums}
MultiRanges ==
  {BytesEq \o Fmt(a) \o <<"-">> \o Fmt(b) \o <<",">> \o Fmt(b + 2) \o <<"-">> \o Fmt(b + 3) :
     a \in 0..1, b \in 1..2}
MalformedRanges ==
  { BytesEq \o <<"a", "b", "c", "-", "d", "e", "f">>,
    BytesEq,
    BytesEq \o <<"-">>,
    <<"a", "b", "c">>,
    <<"i", "t", "e", "m", "s", "=", "0", "-", "1">>,
    BytesEq \o <<"a", "-", "1">>,
    BytesEq \o <<"0", "-", "x">> }
RangeHeaders ==
  {<<>>} \cup ClosedRanges \cup OpenRanges \cup SuffixRanges \cup MultiRanges
         \cup MalformedRanges

\* If-None-Match values: absent, the current validator, validators of other
\* versions of the resource (modified later, of another length)
IfNoneMatchHeaders ==
  {<<>>, ETag(fileSize, mtime), ETag(fileSize, mtime + 1), ETag(fileSize + 1, mtime)}

NoStream == [opened |-> FALSE, ranged |-> FALSE, start |-> Undefined, end |-> Undefined]
NoRequest ==
  [op |-> "none", filename |-> "", range |-> <<>>, ifNoneMatch |-> <<>>,
   ifModifiedSince |-> <<>>, session |-> ""]
NoReply ==
  [status |-> 0, CacheControl |-> "", ETag |-> <<>>, LastModified |-> <<>>,
   ContentRange |-> <<>>, AcceptRanges |-> "", ContentLength |-> Undefined,
   ContentType |-> "", payload |-> "none", stream |-> NoStream]
NoParse == [called |-> FALSE, null |-> TRUE, start |-> Undefined, end |-> Undefined]

RequestIds == 1..MaxRequests
\* a request no governor has seen yet
NoTransfer == [route |-> "none", status |-> 0, stream |-> "none", client |-> "connected"]
\* no stream has been created and nothing was written to the response
NoReadStream == [state |-> "idle", handler |-> "none", start |-> 0, pos |-> 0, last |-> 0 - 1]
NoResponse ==
  [contentLength |-> Undefined, statusCode |-> 0, written |-> 0, chunk |-> <<0, 0>>,
   buffered |-> 0, needDrain |-> FALSE, excess |-> 0, ended |-> FALSE,
   closed |-> FALSE, destroyed |-> FALSE, headersSent |-> FALSE,
   wireStatus |-> 0, statusWrites |-> 0]
TransferIdle == readStream = NoReadStream /\ res = NoResponse

\* handleMultipleRanges has not been called
NoMultipart ==
  [called |-> FALSE, ranges |-> <<>>, statusCode |-> 0, log |-> <<>>,
   ended |-> FALSE, pos |-> <<>>, open |-> <<>>, refused |-> 0]

GovernorIdle ==
  /\ streams = [r \in RequestIds |-> NoTransfer]
  /\ activeStreams = {}
  /\ queue = <<>>
  /\ processing = 0

Init ==
  /\ GovernorIdle
  /\ TransferIdle
  /\ multi = NoMultipart
  /\ fileSize \in FileSizes
  /\ mtime \in 1..MaxMtime
  /\ now = 0
  /\ recentSessions = [sid \in {} |-> 0]
  /\ request = NoRequest
  /\ reply = NoReply
  /\ parsed = NoParse
  /\ content = 0

\* ------------------------------------------- GET /video/:filename (Fastify)
\* recentSessions.set(sessionId, Date.now()) when the query has a session
SessionSet(sessions, sessionId, time) ==
  IF sessionId # ""
  THEN [sid \in (DOMAIN sessions) \cup {sessionId} |->
          IF sid = sessionId THEN time ELSE sessions[sid]]
  ELSE sessions

\* faulty variant: nothing is ever deleted
SessionSweepNever(sessions, time) == sessions
\* the sweep: entries last seen more than SESSION_TIMEOUT ago are deleted
SessionSweep(sessions, time) ==
  [sid \in {k \in DOMAIN sessions : ~(time - sessions[k] > SESSION_TIMEOUT)} |->
     sessions[sid]]

\* range.replace(/bytes=/, '').split('-')
RangeParts(range) == Split(Replace(range, BytesEq), "-")
\* start = parseInt(parts[0], 10)
RangeStart(range) == parseInt(At(RangeParts(range), 0))
\* end = parts[1] ? parseInt(parts[1], 10) : end
RangeEnd(range, end) ==
  IF At(RangeParts(range), 1) # <<>> THEN parseInt(At(RangeParts(range), 1)) ELSE end
\* faulty variant: the chunk size without the + 1
ChunkSizeOffByOne(start, end) == Minus(end, start)
\* chunkSize = (end - start) + 1
ChunkSize(start, end) == Plus(Minus(end, start), Num(1))
\* faulty variant: start > fileSize in place of start >= fileSize
RangeNotSatisfiableStrict(start, end, size) ==
  GT(start, Num(size)) \/ GE(end, Num(size))
\* faulty variant: only the start is validated
RangeNotSatisfiableStartOnly(start, end, size) == GE(start, Num(size))
\* if (start >= fileSize || end >= fileSize) -> 416
RangeNotSatisfiable(start, end, size) == GE(start, Num(size)) \/ GE(end, Num(size))
\* `bytes ${start}-${end}/${fileSize}`
ContentRange(start, end, size) ==
  <<"b", "y", "t", "e", "s", " ">> \o NumberToString(start) \o <<"-">>
    \o NumberToString(end) \o <<"/">> \o NatToString(size)
\* `bytes */${fileSize}`
ContentRangeUnsatisfied(size) ==
  <<"b", "y", "t", "e", "s", " ", "*", "/">> \o NatToString(size)
\* faulty variant: the header is compared with the weak form of the validator
NotModifiedWeak(ifNoneMatch, etag) == ifNoneMatch = <<"W", "/">> \o etag
\* if (request.headers['if-none-match'] === etag)
NotModified(ifNoneMatch, etag) == ifNoneMatch = etag

\* fs.createReadStream(path, {start, end}) is the runtime's, not the
\* repository's: with integers 0 <= start <= end it opens the stream; for
\* any other options it either throws or hands back a stream, and the model
\* leaves open which.
ValidStreamOptions(start, end) ==
  IsNum(start) /\ IsNum(end) /\ 0 <= start.v /\ start.v <= end.v
CreateReadStreamOutcomes(start, end) ==
  IF ValidStreamOptions(start, end) THEN {"opened"} ELSE {"opened", "throws"}

\* faulty variant: requests without a session token are turned away
VideoReplySessionGate(req, size, time, fsOutcome) ==
  [NoReply EXCEPT !.status = IF req.session = "" THEN 401 ELSE 200]

\* faulty variant: the Range header is handled before the If-None-Match check
VideoReplyRangeFirst(req, size, time, fsOutcome) ==
  LET etag == ETag(size, time)
      cached == [NoReply EXCEPT !.CacheControl = "public, max-age=31536000",
                                !.ETag = etag]
      start == RangeStart(req.range)
      end == RangeEnd(req.range, Num(size - 1))
  IN IF req.range # <<>> /\ RangeNotSatisfiable(start, end, size)
     THEN [cached EXCEPT !.status = 416,
                         !.ContentRange = ContentRangeUnsatisfied(size)]
     ELSE IF NotModified(req.ifNoneMatch, etag)
     THEN [cached EXCEPT !.status = 304]
     ELSE [cached EXCEPT !.status = 200, !.ContentLength = Num(size),
                         !.payload = "stream",
                         !.stream = [opened |-> TRUE, ranged |-> FALSE,
                                     start |-> Undefined, end |-> Undefined]]

\* the reply of the handler to req for a resource of the given size and
\* modification time; fsOutcome is what createReadStream did
VideoReply(req, size, time, fsOutcome) ==
  LET range == req.range
      etag == ETag(size, time)
      cached == [NoReply EXCEPT !.CacheControl = "public, max-age=31536000",
                                !.ETag = etag]
      start == RangeStart(range)
      end == RangeEnd(range, Num(size - 1))
      chunkSize == ChunkSize(start, end)
      partial == [cached EXCEPT !.ContentRange = ContentRange(start, end, size),
                                !.AcceptRanges = "bytes",
                                !.ContentLength = chunkSize,
                                !.ContentType = "video/mp4"]
      full == [cached EXCEPT !.ContentLength = Num(size),
                             !.ContentType = "video/mp4",
                             !.AcceptRanges = "bytes"]
  IN IF ~Exists(req.filename)
     THEN [NoReply EXCEPT !.status = 404, !.payload = "Video not found"]
     ELSE IF NotModified(req.ifNoneMatch, etag)
     THEN [cached EXCEPT !.status = 304]
     ELSE IF range # <<>>
     THEN IF RangeNotSatisfiable(start, end, size)
          THEN [cached EXCEPT !.status = 416,
                              !.ContentRange = ContentRangeUnsatisfied(size)]
          ELSE IF fsOutcome = "throws"
          \* the handler's promise rejects: Fastify answers 500 and keeps
          \* the headers already set on the reply
          THEN [partial EXCEPT !.status = 500, !.payload = "error"]
          ELSE [partial EXCEPT !.status = 206, !.payload = "stream",
                               !.stream = [opened |-> TRUE, ranged |-> TRUE,
                                           start |-> start, end |-> end]]
     ELSE [full EXCEPT !.status = 200, !.payload = "stream",
                       !.stream = [opened |-> TRUE, ranged |-> FALSE,
                                   start |-> Undefined, end |-> Undefined]]

\* the outcomes createReadStream can have for req: it is only called on the
\* range branch past the validation
StreamOutcomes(req, size) ==
  LET start == RangeStart(req.range)
      end == RangeEnd(req.range, Num(size - 1))
  IN IF req.range # <<>> /\ ~RangeNotSatisfiable(start, end, size)
     THEN CreateReadStreamOutcomes(start, end)
     ELSE {"opened"}

\* Date.now() is the clock or, while the clock is within MaxNow, later
HandleSessions(filenames, ranges, sessions) ==
  /\ request.op = "none"
  /\ \E filename \in filenames, range \in ranges, inm \in IfNoneMatchHeaders,
        session \in sessions, time \in {now} \cup (now..MaxNow) :
       LET req == [op |-> "GET /video", filename |-> filename, range |-> range,
                   ifNoneMatch |-> inm, ifModifiedSince |-> <<>>,
                   session |-> session]
       IN /\ request' = req
          /\ now' = time
          /\ recentSessions' = SessionSweep(SessionSet(recentSessions, session, time), time)
          /\ \E fsOutcome \in StreamOutcomes(req, fileSize) :
               reply' = VideoReply(req, fileSize, mtime, fsOutcome)
  /\ parsed' = NoParse
  /\ UNCHANGED <<fileSize, mtime, notHttp>>

\* the handler on requests with no session or the one token
HandleRequest(filenames, ranges) == HandleSessions(filenames, ranges, SessionIds)

\* the handler on the filenames inside the assets directory
HandleVideo(ranges) == HandleRequest(Filenames, ranges)

VideoHandler == HandleVideo(RangeHeaders)

\* the response has gone out and the request is over
Done ==
  /\ request.op # "none"
  /\ request' = NoRequest
  /\ reply' = NoReply
  /\ parsed' = NoParse
  /\ UNCHANGED <<fileSize, mtime, now, recentSessions, notHttp>>

\* ------------------------------------------------ parseRange(rangeHeader, fileSize)
parseRange(rangeHeader, size) ==
  IF rangeHeader = <<>> \/ ~StartsWith(rangeHeader, BytesEq)
  THEN NoParse
  ELSE LET parts == Split(Replace(rangeHeader, BytesEq), "-")
           start0 == parseInt(At(parts, 0))
           end0 == parseInt(At(parts, 1))
           suffix == isNaN(start0) /\ ~isNaN(end0)
           open == ~isNaN(start0) /\ isNaN(end0)
           start == IF suffix THEN Minus(Num(size), end0) ELSE start0
           end == IF suffix \/ open THEN Num(size - 1) ELSE end0
       IN IF isNaN(start) \/ isNaN(end) \/ GT(start, end) \/ LT(start, Num(0))
          THEN NoParse
          ELSE [called |-> FALSE, null |-> FALSE, start |-> start, end |-> end]

ParseRangeCall ==
  /\ request.op = "none"
  /\ \E rangeHeader \in RangeHeaders :
       /\ request' = [NoRequest EXCEPT !.op = "parseRange", !.range = rangeHeader]
       /\ parsed' = [parseRange(rangeHeader, fileSize) EXCEPT !.called = TRUE]
  /\ reply' = NoReply
  /\ UNCHANGED <<fileSize, mtime, now, recentSessions, notHttp>>

\* ------------------------------------ handleConditionalRequest(req, res, filePath)
IfModifiedSinceHeaders == {<<>>, LastModified(mtime), LastModified(mtime + 1000)}

ConditionalReply(req, size, time) ==
  LET etag == ETag(size, time)
      lastModified == LastModified(time)
  IN IF NotModified(req.ifNoneMatch, etag)
     THEN [NoReply EXCEPT !.status = 304]
     ELSE IF req.ifModifiedSince = lastModified
     THEN [NoReply EXCEPT !.status = 304]
     ELSE [NoReply EXCEPT !.status = 200, !.ETag = etag,
                          !.LastModified = lastModified,
                          !.CacheControl = "public, max-age=3600",
                          !.payload = "stream",
                          !.stream = [opened |-> TRUE, ranged |-> FALSE,
                                      start |-> Undefined, end |-> Undefined]]

HandleConditionalRequest ==
  /\ request.op = "none"
  /\ \E inm \in IfNoneMatchHeaders, ims \in IfModifiedSinceHeaders :
       LET req == [NoRequest EXCEPT !.op = "handleConditionalRequest",
                                    !.filename = "video.mp4",
                                    !.ifNoneMatch = inm, !.ifModifiedSince = ims]
       IN /\ request' = req
          /\ reply' = ConditionalReply(req, fileSize, mtime)
  /\ parsed' = NoParse
  /\ UNCHANGED <<fileSize, mtime, now, recentSessions, notHttp>>

\* ------------------------------------------------------ the file on disk
\* The file is rewritten between two requests: its bytes change, its length
\* is any length, and its modification time is the time of the write, which
\* at the clock's resolution is the old one or a later one.
ModifyFile ==
  /\ request.op = "none"
  /\ content < MaxWrites
  /\ content' = content + 1
  /\ fileSize' \in FileSizes
  /\ mtime' \in {mtime, mtime + 1}
  /\ UNCHANGED <<now, recentSessions, request, reply, parsed, govVars, xferVars, multi>>

\* requests with and without a Range header against a file that is rewritten
NextModify == HandleVideo({<<>>, BytesEq \o <<"0", "-">>}) \/ Done \/ ModifyFile
SpecModify == Init /\ [][NextModify]_vars

\* ---------------------------------------------- the concurrency governors
\* A request r is streams[r]: route is the entry point that took it, status
\* the response status once one is written, client whether the connection is
\* still there, and stream the fs.ReadStream made for it:
\*   "open"     piped into the response
\*   "blocked"  the response's buffer is full: the pipe has paused the
\*              stream until the response emits 'drain'
\*   "ended"    the source is exhausted ('end'), 'close' is still to come
\*   "errored"  a read failed ('error'), 'close' is still to come
\*   "closed"   'close' was emitted
\*   "stalled"  the response closed under the pipe: the stream is unpiped and
\*              paused, it is not destroyed and nothing resumes it
\* faulty variant: size > MAX in place of size >= MAX
AtCapacityOffByOne(active) == Cardinality(active) > MAX_CONCURRENT_STREAMS
\* activeStreams.size >= MAX_CONCURRENT_STREAMS
AtCapacity(active) == Cardinality(active) >= MAX_CONCURRENT_STREAMS

\* stream.pipe(res): into a response whose connection is gone nothing flows
Piped(r) == IF streams[r].client = "gone" THEN "stalled" ELSE "open"

\* app.get('/video', ...)
LimitRequest(r) ==
  /\ streams[r].route = "none"
  /\ IF AtCapacity(activeStreams)
     THEN /\ streams' = [streams EXCEPT ![r].route = "limit", ![r].status = 503]
          /\ UNCHANGED activeStreams
     ELSE /\ streams' = [streams EXCEPT ![r].route = "limit", ![r].status = 200,
                                        ![r].stream = Piped(r)]
          /\ activeStreams' = activeStreams \cup {r}
  /\ UNCHANGED <<queue, processing, httpVars, content, xferVars, multi>>

\* processStream(req, res, filePath), on the governor's state
ProcessStream(ss, r) == [ss EXCEPT ![r].status = 200, ![r].stream = Piped(r)]

\* faulty variant: the last slot is never given out
HasFreeSlotOffByOne(p) == p < PROCESSING_LIMIT - 1
\* processing < PROCESSING_LIMIT
HasFreeSlot(p) == p < PROCESSING_LIMIT

\* queueStream(req, res, filePath)
QueueStream(r) ==
  /\ streams[r].route = "none"
  /\ IF HasFreeSlot(processing)
     THEN /\ processing' = processing + 1
          /\ streams' = ProcessStream([streams EXCEPT ![r].route = "queue"], r)
          /\ UNCHANGED queue
     ELSE /\ queue' = Append(queue, r)
          /\ streams' = [streams EXCEPT ![r].route = "queue"]
          /\ UNCHANGED processing
  /\ UNCHANGED <<activeStreams, httpVars, content, xferVars, multi>>

\* the source is exhausted: 'end'
StreamEnd(r) ==
  /\ streams[r].stream = "open"
  /\ streams' = [streams EXCEPT ![r].stream = "ended"]
  /\ UNCHANGED <<activeStreams, queue, processing, httpVars, content, xferVars, multi>>

\* a read fails: 'error'
StreamError(r) ==
  /\ streams[r].stream = "open"
  /\ streams' = [streams EXCEPT ![r].stream = "errored"]
  /\ UNCHANGED <<activeStreams, queue, processing, httpVars, content, xferVars, multi>>

\* the client stops taking bytes: a write returns false and the pipe
\* pauses the stream
SinkFull(r) ==
  /\ streams[r].stream = "open"
  /\ streams' = [streams EXCEPT ![r].stream = "blocked"]
  /\ UNCHANGED <<activeStreams, queue, processing, httpVars, content, xferVars, multi>>

\* the client takes bytes again: 'drain', the pipe resumes the stream
SinkDrain(r) ==
  /\ streams[r].stream = "blocked"
  /\ streams' = [streams EXCEPT ![r].stream = "open"]
  /\ UNCHANGED <<activeStreams, queue, processing, httpVars, content, xferVars, multi>>

\* faulty variant: the request taken from the queue is its last one
ShiftValueLast(q) == q[Len(q)]
\* const next = queue.shift(): the value returned
ShiftValue(q) == Head(q)

\* stream.on('close', ...) of either governor
StreamClose(r) ==
  /\ streams[r].stream \in {"ended", "errored"}
  /\ IF streams[r].route = "limit"
     THEN /\ activeStreams' = activeStreams \ {r}
          /\ streams' = [streams EXCEPT ![r].stream = "closed"]
          /\ UNCHANGED <<queue, processing>>
     ELSE IF Len(queue) > 0
     THEN /\ processing' = (processing - 1) + 1
          /\ queue' = Tail(queue)
          /\ streams' = ProcessStream([streams EXCEPT ![r].stream = "closed"],
                                      ShiftValue(queue))
          /\ UNCHANGED activeStreams
     ELSE /\ processing' = processing - 1
          /\ streams' = [streams EXCEPT ![r].stream = "closed"]
          /\ UNCHANGED <<activeStreams, queue>>
  /\ UNCHANGED <<httpVars, content, xferVars, multi>>

\* the client drops the connection: a pipe in progress is unpiped, neither
\* handler listens for it
ClientDisconnect(r) ==
  /\ streams[r].route # "none"
  /\ streams[r].status # 503
  /\ streams[r].client = "connected"
  /\ streams[r].stream \in {"none", "open", "blocked"}
  /\ streams' = [streams EXCEPT ![r].client = "gone",
                                ![r].stream = IF @ \in {"open", "blocked"}
                                              THEN "stalled" ELSE @]
  /\ UNCHANGED <<activeStreams, queue, processing, httpVars, content, xferVars, multi>>

InitGovernor ==
  /\ GovernorIdle
  /\ TransferIdle
  /\ multi = NoMultipart
  /\ fileSize = MaxFileSize /\ mtime = 1 /\ now = 0
  /\ recentSessions = [sid \in {} |-> 0]
  /\ request = NoRequest /\ reply = NoReply /\ parsed = NoParse
  /\ content = 0

NextGovernor ==
  \E r \in RequestIds :
    \/ LimitRequest(r)
    \/ QueueStream(r)
    \/ StreamEnd(r)
    \/ StreamError(r)
    \/ SinkFull(r)
    \/ SinkDrain(r)
    \/ StreamClose(r)
    \/ ClientDisconnect(r)

SpecGovernor == InitGovernor /\ [][NextGovernor]_vars

\* every pending stream event is delivered: a stream that is being read
\* reaches its end, and 'close' follows 'end' and 'error'
SpecGovernorFair ==
  /\ SpecGovernor
  /\ \A r \in RequestIds : WF_vars(StreamEnd(r)) /\ WF_vars(StreamClose(r))

\* ------------------------------------------------------------ one transfer
\* readStream is the fs.ReadStream of the transfer: handler is the snippet
\* that reads it ("manual": the loop with backpressure handling, "disconnect":
\* the pipe with the request 'close' listener), start..last the bytes it is to
\* deliver, pos the offset of the next chunk, and state one of
\*   "flowing"    'data' events are delivered
\*   "paused"     stream.pause() was called
\*   "ended"      'end' was emitted
\*   "errored"    'error' was emitted
\*   "destroyed"  stream.destroy() was called
\* res is the response: contentLength the header sent, written the bytes
\* passed to res.write, chunk the offset and length of the last one, buffered
\* the bytes the socket has not taken yet, needDrain whether a write returned
\* false since the last 'drain', excess the number of writes that did,
\* statusCode the property res.statusCode, headersSent whether the status line
\* and headers have gone out, wireStatus the status they carried and
\* statusWrites how many status lines were put on the wire, closed whether
\* the request's 'close' was seen, destroyed whether res.destroy() was called.
\* Two more handlers read a stream: "large" is streamLargeFile of
\* video-streaming-endpoint.md, "fastify" the route itself with
\* reply.send(stream).
Min(a, b) == IF a <= b THEN a ELSE b

Handlers == {"manual", "disconnect", "large", "fastify"}

\* faulty variant: a status line is written whether or not one has gone out
ImplicitHeaderAlways(r) ==
  [r EXCEPT !.headersSent = TRUE, !.wireStatus = r.statusCode,
            !.statusWrites = @ + 1]
\* the status line and headers go out once, with the first write, end or
\* writeHead, carrying res.statusCode as it is then
ImplicitHeader(r) ==
  IF r.headersSent
  THEN r
  ELSE [r EXCEPT !.headersSent = TRUE, !.wireStatus = r.statusCode,
                 !.statusWrites = @ + 1]

\* the ranges asked of the handler whose stream is then read
StreamRanges ==
  {<<>>, BytesEq \o <<"0", "-">>, BytesEq \o <<"1", "-", "2">>,
   BytesEq \o <<"2", "-", "1", "1">>}

\* fs.createReadStream(videoPath, { start, end }) of the handler, read by
\* one of the two snippets; both offsets are inclusive and reading stops at
\* the end of the file
StreamStart ==
  /\ readStream.state = "idle"
  /\ reply.stream.opened
  /\ reply.stream.ranged => ValidStreamOptions(reply.stream.start, reply.stream.end)
  /\ \E h \in Handlers :
       LET s == IF reply.stream.ranged THEN reply.stream.start.v ELSE 0
           e == IF reply.stream.ranged
                THEN Min(reply.stream.end.v, fileSize - 1)
                ELSE fileSize - 1
           r == [NoResponse EXCEPT !.contentLength = reply.ContentLength,
                                   !.statusCode = reply.status]
       IN /\ readStream' = [state |-> "flowing", handler |-> h, start |-> s,
                            pos |-> s, last |-> e]
          \* streamLargeFile calls res.writeHead(206 | 200, ...) before it
          \* creates the stream
          /\ res' = IF h = "large" THEN ImplicitHeader(r) ELSE r
  /\ UNCHANGED <<httpVars, content, govVars, multi>>

\* const canContinue = res.write(chunk): false once the buffer, with the n
\* bytes of the chunk, has reached the high-water mark
CanContinue(r, n) == r.buffered + n < HighWaterMark
\* res.write(chunk) for the n bytes at offset off
ResWrite(r, off, n) ==
  LET full == ~CanContinue(r, n)
  IN [ImplicitHeader(r) EXCEPT
               !.written = @ + n, !.chunk = <<off, n>>, !.buffered = @ + n,
               !.needDrain = @ \/ full,
               !.excess = IF full THEN @ + 1 ELSE @]
\* faulty variant: the stream is never paused
AfterWriteNeverPauses(canContinue) == "flowing"
\* if (!canContinue) stream.pause()
AfterWrite(canContinue) == IF canContinue THEN "flowing" ELSE "paused"

\* stream.on('data', chunk => ...)
ReadData ==
  /\ readStream.state = "flowing"
  /\ readStream.pos <= readStream.last
  /\ \E n \in 1..Min(MaxChunk, readStream.last - readStream.pos + 1) :
       /\ res' = ResWrite(res, readStream.pos, n)
       /\ readStream' = [readStream EXCEPT !.pos = @ + n,
                                           !.state = AfterWrite(CanContinue(res, n))]
  /\ UNCHANGED <<httpVars, content, govVars, multi>>

\* stream.on('end', () => res.end())
ReadEnd ==
  /\ readStream.state = "flowing"
  /\ readStream.pos > readStream.last
  /\ readStream' = [readStream EXCEPT !.state = "ended"]
  /\ res' = [ImplicitHeader(res) EXCEPT !.ended = TRUE]
  /\ UNCHANGED <<httpVars, content, govVars, multi>>

\* stream.on('error', ...) of each handler:
\*   manual      res.statusCode = 500; res.end()
\*   large       if (!res.headersSent) res.writeHead(500); res.end()
\*   fastify     reply.code(500).send(): the code is set on the raw response,
\*               the second send of a reply already sent is refused, and
\*               Fastify answers the failed stream itself: an error reply
\*               if no header has gone out, else it destroys the response
\*   disconnect  no listener, the pipe leaves the response as it is
OnError(h, r) ==
  CASE h = "manual" ->
         [ImplicitHeader([r EXCEPT !.statusCode = 500]) EXCEPT !.ended = TRUE]
    [] h = "large" ->
         [ImplicitHeader([r EXCEPT !.statusCode = IF r.headersSent THEN @ ELSE 500])
            EXCEPT !.ended = TRUE]
    [] h = "fastify" ->
         IF r.headersSent
         THEN [r EXCEPT !.statusCode = 500, !.destroyed = TRUE]
         ELSE [ImplicitHeader([r EXCEPT !.statusCode = 500]) EXCEPT !.ended = TRUE]
    [] OTHER -> r

ReadError ==
  /\ readStream.state = "flowing"
  /\ readStream.pos <= readStream.last
  /\ readStream' = [readStream EXCEPT !.state = "errored"]
  /\ res' = OnError(readStream.handler, res)
  /\ UNCHANGED <<httpVars, content, govVars, multi>>

\* the socket takes k buffered bytes; when the buffer empties after a write
\* returned false the response emits 'drain': () => stream.resume()
SocketFlush ==
  /\ res.buffered > 0
  /\ ~res.closed
  /\ ~res.destroyed
  /\ \E k \in 1..res.buffered :
       LET drain == res.needDrain /\ res.buffered = k
       IN /\ res' = [res EXCEPT !.buffered = @ - k,
                                !.needDrain = @ /\ ~drain,
                                !.excess = IF drain THEN 0 ELSE @]
          /\ readStream' = [readStream EXCEPT
                              !.state = IF drain /\ @ = "paused" THEN "flowing" ELSE @]
  /\ UNCHANGED <<httpVars, content, govVars, multi>>

\* faulty variant: the 'close' listener leaves the stream alone
DestroyNever(state) == state
\* stream.destroy(): a stream that has ended or failed is already destroyed
Destroy(state) == IF state \in {"flowing", "paused"} THEN "destroyed" ELSE state

\* req.on('close', () => stream.destroy()): the client has disconnected.
\* Only the snippet that registers the listener is followed past this event.
ReqClose ==
  /\ readStream.handler \in {"disconnect", "large"}
  /\ ~res.closed
  /\ res' = [res EXCEPT !.closed = TRUE]
  /\ readStream' = [readStream EXCEPT !.state = Destroy(@)]
  /\ UNCHANGED <<httpVars, content, govVars, multi>>

InitStream ==
  /\ GovernorIdle
  /\ TransferIdle
  /\ multi = NoMultipart
  /\ fileSize \in FileSizes
  /\ mtime = 1 /\ now = 0
  /\ recentSessions = [sid \in {} |-> 0]
  /\ request = NoRequest /\ reply = NoReply /\ parsed = NoParse
  /\ content = 0

NextStream ==
  \/ HandleVideo(StreamRanges)
  \/ StreamStart
  \/ ReadData
  \/ ReadEnd
  \/ ReadError
  \/ SocketFlush
  \/ ReqClose

SpecStream == InitStream /\ [][NextStream]_vars

\* a flowing stream delivers its next chunk and its end, and a client that is
\* still connected keeps taking bytes from the socket
SpecStreamFair ==
  /\ SpecStream
  /\ WF_vars(ReadData) /\ WF_vars(ReadEnd) /\ WF_vars(SocketFlush)

\* ------------------------------------------- requests for any filename
\* the handler on names inside and outside the assets directory
HandleAnyFile ==
  HandleRequest(Filenames \cup TraversalFilenames, {<<>>, BytesEq \o <<"0", "-">>})

NextTraversal == HandleAnyFile \/ Done
SpecTraversal == InitStream /\ [][NextTraversal]_vars

\* ------------------------------------------------- sessions over time
\* requests with no session or one of two tokens
HandleTokens == HandleSessions({"video.mp4"}, {<<>>}, {"", "s1", "s2"})

\* time passes between two requests: exactly SESSION_TIMEOUT, or one
\* millisecond more
ClockAdvance ==
  /\ request.op = "none"
  /\ now < MaxClockSteps * SESSION_TIMEOUT
  /\ now' \in {now + SESSION_TIMEOUT, now + SESSION_TIMEOUT + 1}
  /\ UNCHANGED <<fileSize, mtime, recentSessions, request, reply, parsed, notHttp>>

NextSessions == HandleTokens \/ Done \/ ClockAdvance
SpecSessions == InitGovernor /\ [][NextSessions]_vars

\* ------------------------------------ handleMultipleRanges(ranges, filePath, res)
\* multi.log is the sequence of res.write calls that reached the response:
\* <<"boundary", i>> and <<"headers", i>> for part i, <<"bytes", i, n>> for n
\* bytes of part i, <<"close">> for the closing boundary. multi.pos[i] is the
\* offset the stream of part i reads next, multi.open[i] whether it has not
\* ended, multi.refused the bytes passed to res.write after res.end().
PartRanges ==
  {[start |-> 0, end |-> 1], [start |-> 2, end |-> 3], [start |-> 4, end |-> 6]}
RangeLists ==
  {<<a>> : a \in PartRanges} \cup {<<a, b>> : a \in PartRanges, b \in PartRanges}

\* the writes of ranges.forEach for parts i..Len(ranges): boundary, part
\* headers, and a pipe that has delivered nothing when the callback returns
RECURSIVE ForEachWrites(_, _)
ForEachWrites(ranges, i) ==
  IF i > Len(ranges) THEN <<>>
  ELSE <<(<<"boundary", i>>), (<<"headers", i>>)>> \o ForEachWrites(ranges, i + 1)

\* the call runs to its end in one turn of the event loop: writeHead(206),
\* the forEach, the closing boundary and res.end()
HandleMultipleRanges ==
  /\ ~multi.called
  /\ \E ranges \in RangeLists :
       multi' = [called |-> TRUE, ranges |-> ranges, statusCode |-> 206,
                 log |-> ForEachWrites(ranges, 1) \o <<(<<"close">>)>>,
                 ended |-> TRUE,
                 pos |-> [i \in 1..Len(ranges) |-> ranges[i].start],
                 open |-> [i \in 1..Len(ranges) |-> TRUE],
                 refused |-> 0]
  /\ UNCHANGED <<httpVars, content, govVars, xferVars>>

\* the stream of part i delivers n bytes and the pipe passes them to
\* res.write: past res.end() the write is refused
PartData(i) ==
  /\ multi.called
  /\ i \in 1..Len(multi.ranges)
  /\ multi.open[i]
  /\ multi.pos[i] <= multi.ranges[i].end
  /\ \E n \in 1..Min(MaxChunk, multi.ranges[i].end - multi.pos[i] + 1) :
       multi' = IF multi.ended
                THEN [multi EXCEPT !.pos[i] = @ + n, !.refused = @ + n]
                ELSE [multi EXCEPT !.pos[i] = @ + n,
                                   !.log = Append(@, <<"bytes", i, n>>)]
  /\ UNCHANGED <<httpVars, content, govVars, xferVars>>

\* the stream of part i ends: { end: false } leaves the response open
PartEnd(i) ==
  /\ multi.called
  /\ i \in 1..Len(multi.ranges)
  /\ multi.open[i]
  /\ multi.pos[i] > multi.ranges[i].end
  /\ multi' = [multi EXCEPT !.open[i] = FALSE]
  /\ UNCHANGED <<httpVars, content, govVars, xferVars>>

NextMultipart ==
  \/ HandleMultipleRanges
  \/ \E i \in 1..Len(multi.ranges) : PartData(i) \/ PartEnd(i)

SpecMultipart == InitGovernor /\ [][NextMultipart]_vars

Next == VideoHandler \/ ParseRangeCall \/ HandleConditionalRequest \/ Done

Spec == Init /\ [][Next]_vars

\* ================================================================= claims
\* the request in hand is a GET /video/:filename for the existing resource
OnVideo == request.op = "GET /video" /\ Exists(request.filename)
\* its If-None-Match does not name the resource's current validator
Stale == request.ifNoneMatch # ETag(fileSize, mtime)
\* header texts
ClosedText == [a \in Nums |-> [b \in Nums |-> BytesEq \o Fmt(a) \o <<"-">> \o Fmt(b)]]
OpenText == [a \in Nums |-> BytesEq \o Fmt(a) \o <<"-">>]
SuffixText == [n \in Nums |-> BytesEq \o <<"-">> \o Fmt(n)]
Closed(a, b) == ClosedText[a][b]
Open(a) == OpenText[a]
Suffix(n) == SuffixText[n]
BytesOf(a, b, size) ==
  <<"b", "y", "t", "e", "s", " ">> \o Fmt(a) \o <<"-">> \o Fmt(b) \o <<"/">> \o Fmt(size)
BytesStar(size) == <<"b", "y", "t", "e", "s", " ", "*", "/">> \o Fmt(size)
Max(a, b) == IF a >= b THEN a ELSE b

\* the reply is 206 over exactly the bytes a..b
Partial(a, b) ==
  /\ reply.status = 206
  /\ reply.ContentRange = BytesOf(a, b, fileSize)
  /\ reply.ContentLength = Num(b - a + 1)
  /\ reply.payload = "stream"
  /\ reply.stream = [opened |-> TRUE, ranged |-> TRUE, start |-> Num(a), end |-> Num(b)]

\* the reply is 416 with no body and no stream
Unsatisfied ==
  /\ reply.status = 416
  /\ reply.ContentRange = BytesStar(fileSize)
  /\ reply.payload = "none"
  /\ reply.stream = NoStream

\* C1: a GET with 'Range: bytes=a-b', 0 <= a <= b < fileSize, and no matching
\* If-None-Match is answered 206 with Content-Range 'bytes a-b/fileSize',
\* Content-Length b-a+1 and a read stream over exactly the bytes a..b.
C1_ValidRangeServed ==
  (OnVideo /\ Stale) =>
    \A a \in Nums, b \in Nums :
      (a <= b /\ b < fileSize /\ request.range = Closed(a, b)) => Partial(a, b)

C1_Witness ==
  /\ OnVideo /\ Stale /\ fileSize = 10
  /\ request.range = Closed(2, 9)
  /\ reply.status = 206 /\ reply.ContentLength = Num(8)

\* C2: with start >= fileSize, 'bytes=start-end' and 'bytes=start-' are answered
\* 416 with 'Content-Range: bytes */fileSize', no body and no read stream; every
\* well-formed range against a resource of length 0 is answered 416. (Requests
\* the conditional check has not already answered.)
C2_StartPastEnd ==
  (OnVideo /\ Stale) =>
    /\ \A a \in Nums, b \in Nums :
         (a >= fileSize /\ request.range \in {Closed(a, b), Open(a)}) => Unsatisfied
    /\ \A n \in Nums :
         (fileSize = 0 /\ request.range \in {Open(n), Suffix(n)} \cup {Closed(n, b) : b \in Nums})
           => Unsatisfied

C2_Witness ==
  /\ OnVideo /\ Stale /\ fileSize = 10
  /\ request.range = Open(10)
  /\ reply.status = 416

\* C3 as stated: start < fileSize and end >= fileSize is clamped to
\* fileSize-1 and answered 206 'bytes start-(fileSize-1)/fileSize' with
\* Content-Length fileSize - start, not 416.
C3_EndClamped ==
  (OnVideo /\ Stale) =>
    \A a \in Nums, b \in Nums :
      (a < fileSize /\ b >= fileSize /\ request.range = Closed(a, b))
        => (Partial(a, fileSize - 1) /\ reply.status # 416)

\* C3 amended: start < fileSize and end >= fileSize is answered 416 with
\* 'Content-Range: bytes */fileSize', no body and no read stream; the end is
\* not clamped.
C3_EndPastEndUnsatisfied ==
  (OnVideo /\ Stale) =>
    \A a \in Nums, b \in Nums :
      (a < fileSize /\ b >= fileSize /\ request.range = Closed(a, b)) => Unsatisfied

C3_Witness ==
  /\ OnVideo /\ Stale /\ fileSize = 10
  /\ request.range = Closed(9, 11)
  /\ reply.status = 416

\* C4: for fileSize > 0 and N >= 1, 'bytes=-N' resolves to
\* start = max(0, fileSize-N), end = fileSize-1 and is served 206 with those
\* bounds; no reply and no parse result carries a non-numeric or negative start.
C4_SuffixRange ==
  /\ (OnVideo /\ Stale /\ fileSize > 0) =>
       \A n \in Nums :
         (n >= 1 /\ request.range = Suffix(n))
           => Partial(Max(0, fileSize - n), fileSize - 1)
  /\ (request.op = "parseRange" /\ fileSize > 0) =>
       \A n \in Nums :
         (n >= 1 /\ request.range = Suffix(n))
           => /\ ~parsed.null
              /\ parsed.start = Num(Max(0, fileSize - n))
              /\ parsed.end = Num(fileSize - 1)
  /\ (request.range \in SuffixRanges /\ reply.ContentRange # <<>> /\ reply.status # 416)
       => \E a \in 0..MaxFileSize, b \in 0..MaxFileSize :
            reply.ContentRange = BytesOf(a, b, fileSize)
  /\ ~parsed.null => (IsNum(parsed.start) /\ parsed.start.v >= 0)

\* C5: for fileSize > 0, 'bytes=0-' and 'bytes=-fileSize' both resolve to
\* [0, fileSize-1], and 'bytes=A-' with A < fileSize to [A, fileSize-1]; the
\* forms give the same status, Content-Range and Content-Length.
C5_OpenAndSuffixAgree ==
  /\ (OnVideo /\ Stale /\ fileSize > 0) =>
       /\ request.range \in {Open(0), Suffix(fileSize)} => Partial(0, fileSize - 1)
       /\ \A a \in Nums :
            (a < fileSize /\ request.range = Open(a)) => Partial(a, fileSize - 1)
  /\ (request.op = "parseRange" /\ fileSize > 0) =>
       /\ request.range \in {Open(0), Suffix(fileSize)}
            => (~parsed.null /\ parsed.start = Num(0) /\ parsed.end = Num(fileSize - 1))
       /\ \A a \in Nums :
            (a < fileSize /\ request.range = Open(a))
              => (~parsed.null /\ parsed.start = Num(a) /\ parsed.end = Num(fileSize - 1))

\* C6: a Range header outside the supported syntax is treated as absent: 200
\* with the full body and Content-Length fileSize, never 206, 416 or 500.
C6_MalformedIsFullBody ==
  (OnVideo /\ Stale /\ request.range \in MalformedRanges) =>
    /\ reply.status = 200
    /\ reply.ContentLength = Num(fileSize)
    /\ reply.stream.opened /\ ~reply.stream.ranged

C8_StartAfterEndUnsatisfied ==
  (OnVideo /\ Stale) =>
    \A a \in Nums, b \in Nums :
      (a > b /\ request.range = Closed(a, b)) => Unsatisfied

\* C9: a multi-range header is rejected; it is never answered with a 206
\* that serves the first listed range.
C9_MultiRangeRejected ==
  (OnVideo /\ Stale /\ request.range \in MultiRanges) =>
    (reply.status # 206 /\ ~reply.stream.opened)

\* C10: a request whose If-None-Match equals the resource's current validator
\* is answered 304 with an empty body, without Content-Length or
\* Content-Range, and no read stream is opened.
C10_NotModified ==
  (/\ request.op \in {"GET /video", "handleConditionalRequest"}
   /\ Exists(request.filename)
   /\ request.ifNoneMatch = ETag(fileSize, mtime)) =>
    /\ reply.status = 304
    /\ reply.payload = "none"
    /\ reply.ContentLength = Undefined
    /\ reply.ContentRange = <<>>
    /\ reply.stream = NoStream

C10_Witness ==
  /\ request.op = "GET /video" /\ Exists(request.filename)
  /\ request.ifNoneMatch = ETag(fileSize, mtime)
  /\ request.range = Closed(0, 1)
  /\ fileSize = 10
  /\ reply.status = 304

\* C11: the conditional check runs before range parsing: a request whose
\* If-None-Match names the current validator is answered 304 whatever its
\* Range header is (absent, valid, malformed, unsatisfiable), never 206 or
\* 416, and no transfer is started for it (no read stream is opened).
C11_ConditionalBeforeRange ==
  (OnVideo /\ ~Stale) =>
    /\ reply.status = 304
    /\ reply.status \notin {206, 416}
    /\ reply.ContentRange = <<>>
    /\ ~reply.stream.opened

C11_Witness ==
  /\ OnVideo /\ ~Stale /\ fileSize = 10
  /\ request.range = Open(10)
  /\ reply.status = 304

\* C12: whenever the content of the resource changes between two requests its
\* validator changes (so an If-None-Match that gave 304 before the change
\* cannot give 304 after it).
C12_ContentChangeChangesValidator ==
  [][content' # content => ETag(fileSize', mtime') # ETag(fileSize, mtime)]_vars

\* ------------------------------------------------- claims on the governors
\* the admitted transfers of a governor that have reached no terminal event:
\* the stream is open or its 'close' is still to come, the client is there
Live(route) ==
  {r \in RequestIds : streams[r].route = route
                      /\ streams[r].stream \in {"open", "blocked", "ended", "errored"}}
\* request r reaches app.get('/video') in this step
Arrives(r) == streams[r].route = "none" /\ streams'[r].route = "limit"

\* C13: in every reachable state, whatever the interleaving of handlers,
\* stream events and disconnects, the count of each governor lies between 0
\* and its ceiling, so two admissions at ceiling - 1 never both succeed.
C13_CountWithinCeiling ==
  /\ 0 <= Cardinality(activeStreams)
  /\ Cardinality(activeStreams) <= MAX_CONCURRENT_STREAMS
  /\ 0 <= processing
  /\ processing <= PROCESSING_LIMIT
\* the ceiling is reached and a further request was turned away
C13_Witness ==
  /\ Cardinality(activeStreams) = MAX_CONCURRENT_STREAMS
  /\ \E r \in RequestIds : streams[r].status = 503

\* C14: a request is answered 503 exactly when MAX_CONCURRENT_STREAMS admitted
\* transfers are still under way; once one of them has completed or aborted,
\* the next request is admitted.
C14_AdmittedWhenBelowCeiling ==
  [][\A r \in RequestIds :
       Arrives(r) =>
         (streams'[r].status = 503
            <=> Cardinality(Live("limit")) >= MAX_CONCURRENT_STREAMS)]_vars

\* C15: the count of each governor equals the number of its admitted
\* transfers that have reached no terminal event (end, error, disconnect).
C15_CountIsLiveTransfers ==
  /\ Cardinality(activeStreams) = Cardinality(Live("limit"))
  /\ processing = Cardinality(Live("queue"))

\* C16: a transfer whose client dropped the connection mid-stream eventually
\* leaves the live set.
C16_AbortedEventuallyReleased ==
  \A r \in RequestIds :
    (streams[r].route = "limit" /\ streams[r].stream = "stalled")
      ~> (r \notin activeStreams)

\* C17: a request arriving while activeStreams.size = MAX_CONCURRENT_STREAMS
\* is answered 503: no stream is opened for it, it is not added to the live
\* set, the count is unchanged and it is never served afterwards.
C17_RejectedAtCeiling ==
  [][\A r \in RequestIds :
       /\ (Arrives(r) /\ Cardinality(activeStreams) = MAX_CONCURRENT_STREAMS) =>
            /\ streams'[r].status = 503
            /\ streams'[r].stream = "none"
            /\ activeStreams' = activeStreams
       /\ streams[r].status = 503 =>
            /\ streams'[r] = streams[r]
            /\ r \notin activeStreams']_vars
C17_Witness ==
  \E r \in RequestIds :
    /\ streams[r].status = 503
    /\ streams[r].stream = "none"
    /\ r \notin activeStreams
    /\ Cardinality(activeStreams) = MAX_CONCURRENT_STREAMS
    /\ \E q \in activeStreams : streams[q].stream = "ended"

\* ------------------------------------------------ claims on one transfer
Manual == readStream.handler = "manual"

\* C18: in the manual loop, once res.write has returned false the stream is
\* paused and no chunk is read or written until 'drain'; no more than one
\* write has returned false since the last 'drain'; 'drain' resumes the
\* stream, and a paused transfer eventually finishes.
C18_Backpressure ==
  /\ [](Manual => /\ (res.needDrain => readStream.state # "flowing")
                  /\ res.excess <= 1)
  /\ [][Manual =>
          /\ (res.needDrain /\ res'.needDrain) =>
               (res'.written = res.written /\ readStream'.pos = readStream.pos)
          /\ (res.needDrain /\ ~res'.needDrain /\ readStream.state = "paused") =>
               readStream'.state = "flowing"]_vars
  /\ (Manual /\ readStream.state = "paused")
       ~> (readStream.state \in {"ended", "errored"})
\* the loop is paused after a refused write, with bytes still to read
C18_Witness ==
  /\ Manual
  /\ readStream.state = "paused"
  /\ res.excess = 1
  /\ res.buffered >= HighWaterMark
  /\ readStream.pos <= readStream.last

\* C19: every chunk written starts where the last one stopped, so offsets
\* strictly increase with no gap and no repeat; when the stream has ended
\* the bytes written are the Content-Length of the headers, the length of
\* the range for 206 and of the file for 200.
C19_OrderedAndComplete ==
  /\ [][res'.written # res.written =>
          /\ res'.chunk[2] > 0
          /\ res'.chunk[1] = readStream.start + res.written
          /\ res'.written = res.written + res'.chunk[2]]_vars
  /\ [](readStream.state = "ended" =>
          /\ IsNum(res.contentLength)
          /\ res.written = res.contentLength.v
          /\ res.statusCode = 206 => res.written = readStream.last - readStream.start + 1
          /\ res.statusCode = 200 => res.written = fileSize)
\* a 206 transfer of bytes 1-2 that ended after two chunks of one byte
C19_Witness ==
  /\ readStream.state = "ended"
  /\ res.statusCode = 206
  /\ res.written = 2
  /\ res.chunk = <<2, 1>>

\* C20: when the request's 'close' is observed during a transfer the stream
\* is destroyed; from then on no chunk is read or written and the transfer
\* never ends normally.
C20_DisconnectAborts ==
  [][/\ (~res.closed /\ res'.closed /\ readStream.state \in {"flowing", "paused"}) =>
          readStream'.state = "destroyed"
     /\ (res.closed /\ readStream.state = "destroyed") =>
          /\ readStream' = readStream
          /\ res'.written = res.written
          /\ ~res'.ended]_vars
\* the client left with bytes written and bytes still to read
C20_Witness ==
  /\ res.closed
  /\ readStream.state = "destroyed"
  /\ res.written > 0
  /\ readStream.pos <= readStream.last

\* ------------------------------------------------------------- more claims
\* the stream fails in this step
ErrorStep == readStream.state = "flowing" /\ readStream'.state = "errored"

C22_TraversalRejected ==
  (request.op = "GET /video" /\ ~InsideRoot(VideoPath(request.filename))) =>
    /\ reply.status \in {403, 404}
    /\ ~reply.stream.opened

\* the handler takes a request in this step
Handled == request.op = "none" /\ request'.op = "GET /video"

\* C23: the reply to a request is a reply the handler gives to the same
\* request with any other session value, whatever recentSessions holds; the
\* session value changes recentSessions and nothing else.
C23_SessionHasNoEffect ==
  [][Handled =>
       /\ \A s \in SessionIds :
            LET other == [request' EXCEPT !.session = s]
            IN reply' \in {VideoReply(other, fileSize, mtime, o) :
                             o \in StreamOutcomes(other, fileSize)}
       /\ request'.session = "" => recentSessions' = SessionSweep(recentSessions, now')
       /\ UNCHANGED <<fileSize, mtime, notHttp>>]_vars
\* a request without a session token answered 206 by a server that has
\* a session on record
C23_Witness ==
  /\ request.op = "GET /video"
  /\ request.session = ""
  /\ "s1" \in DOMAIN recentSessions
  /\ reply.status = 206

\* a transfer of app.get('/video') that has reached a terminal event: its
\* stream closed after 'end' or 'error', or its client dropped the connection
Terminal(r) == streams[r].route = "limit" /\ streams[r].stream \in {"closed", "stalled"}
Streaming(r) ==
  streams[r].route = "limit"
    /\ streams[r].stream \in {"open", "blocked", "ended", "errored"}

\* C24: a transfer that is terminal stays as it is, a transfer is in the
\* live set exactly while it is streaming, and the step that makes it
\* terminal (end, error or client disconnect) removes it from the live set.
C24_Lifecycle ==
  [][\A r \in RequestIds :
       /\ Terminal(r) => streams'[r] = streams[r]
       /\ (r \in activeStreams) <=> Streaming(r)
       /\ (~Terminal(r) /\ Terminal(r)') => r \notin activeStreams']_vars

\* C25: no transfer holds its slot for ever while its sink never drains and
\* its client never closes the connection.
C25_IdleTransferReleased ==
  \A r \in RequestIds :
    []<>~(streams[r].stream = "blocked" /\ r \in activeStreams)

\* ------------------------------------------- claims on the queueing governor
Queued == {queue[i] : i \in 1..Len(queue)}
Started(r) == streams[r].stream # "none"
Running(r) ==
  streams[r].route = "queue" /\ streams[r].stream \in {"open", "blocked", "stalled", "ended", "errored"}

\* C26: a request that arrives at the limit joins the end of the queue, the
\* request started is always the head of the queue, a started request is
\* never queued or started again, and if every running stream eventually
\* emits 'close' every queued request is eventually started.
C26_QueueIsFifo ==
  /\ [][\A r \in RequestIds :
          /\ (r \notin Queued /\ r \in Queued') => queue' = Append(queue, r)
          /\ (r \in Queued /\ r \notin Queued') =>
               /\ r = Head(queue)
               /\ queue' = Tail(queue)
               /\ ~Started(r) /\ Started(r)'
          /\ (r \in Queued' /\ r \in Queued) => ~Started(r)'
          /\ Started(r) => (Started(r)' /\ r \notin Queued')]_vars
  /\ [](Cardinality(Queued) = Len(queue))
  /\ (\A r \in RequestIds : Running(r) ~> (streams[r].stream = "closed"))
       => (\A r \in RequestIds : (r \in Queued) ~> Started(r))
\* one request has run and closed, one taken from the queue runs, one waits
C26_Witness ==
  \E a, b, c \in RequestIds :
    /\ streams[a].route = "queue" /\ streams[a].stream = "closed"
    /\ streams[b].route = "queue" /\ streams[b].stream = "open"
    /\ queue = <<c>>
    /\ processing = PROCESSING_LIMIT

\* C27: in the queueing governor processing stays between 0 and
\* PROCESSING_LIMIT, and while a request waits in the queue every slot is
\* taken.
C27_NoWaitingWhileSlotFree ==
  /\ 0 <= processing
  /\ processing <= PROCESSING_LIMIT
  /\ queue # <<>> => processing = PROCESSING_LIMIT
\* two requests wait while the slots are taken
C27_Witness ==
  /\ Len(queue) = 2
  /\ processing = PROCESSING_LIMIT
  /\ \E r \in RequestIds : streams[r].route = "queue" /\ streams[r].stream = "ended"

\* ------------------------------------------------------ claims on sessions
\* C28: after the bookkeeping of a request handled at time now, no entry of
\* recentSessions was last seen more than SESSION_TIMEOUT before now, and
\* the request's session id, if it has one, is recorded with time now.
C28_SessionsAreRecent ==
  request.op = "GET /video" =>
    /\ \A sid \in DOMAIN recentSessions :
         /\ recentSessions[sid] <= now
         /\ now - recentSessions[sid] <= SESSION_TIMEOUT
    /\ request.session # "" =>
         /\ request.session \in DOMAIN recentSessions
         /\ recentSessions[request.session] = now
\* a request of s1, handled exactly SESSION_TIMEOUT after s2 was last seen
C28_Witness ==
  /\ request.op = "GET /video"
  /\ request.session = "s1"
  /\ DOMAIN recentSessions = {"s1", "s2"}
  /\ now - recentSessions["s2"] = SESSION_TIMEOUT
  /\ now > SESSION_TIMEOUT

\* ------------------------------------------- claims on handleMultipleRanges
\* the bytes of part i among the first k writes
RECURSIVE PartBytes(_, _)
PartBytes(k, i) ==
  IF k = 0 THEN 0
  ELSE PartBytes(k - 1, i)
         + (IF multi.log[k][1] = "bytes" /\ multi.log[k][2] = i THEN multi.log[k][3] ELSE 0)
PartLength(i) == multi.ranges[i].end - multi.ranges[i].start + 1

\* C29: the bytes of a part follow its own headers with no write of another
\* part between; the boundary of the next part and the closing boundary come
\* only after all the bytes of the parts before; the response has ended only
\* with every part complete, and no byte is passed to res.write afterwards.
C29_PartsInOrder ==
  multi.called =>
    /\ \A k \in 1..Len(multi.log) :
         /\ multi.log[k][1] = "bytes" =>
              \E j \in 1..(k - 1) :
                /\ multi.log[j] = <<"headers", multi.log[k][2]>>
                /\ \A m \in (j + 1)..(k - 1) : multi.log[m][1] = "bytes"
         /\ multi.log[k][1] = "boundary" =>
              \A i \in 1..(multi.log[k][2] - 1) : PartBytes(k, i) = PartLength(i)
         /\ multi.log[k][1] = "close" =>
              \A i \in 1..Len(multi.ranges) : PartBytes(k, i) = PartLength(i)
    /\ multi.ended =>
         \A i \in 1..Len(multi.ranges) : PartBytes(Len(multi.log), i) = PartLength(i)
    /\ multi.refused = 0

\* C30: parseRange returns null or integers start and end with
\* 0 <= start <= end <= fileSize - 1.
C30_ParsedRangeInsideFile ==
  (parsed.called /\ ~parsed.null) =>
    /\ IsNum(parsed.start) /\ IsNum(parsed.end)
    /\ 0 <= parsed.start.v
    /\ parsed.start.v <= parsed.end.v
    /\ parsed.end.v <= fileSize - 1
====
